---- MODULE Spec2Model ----
(***************************************************************************)
(* Model of book_to_md.py: font analysis, size -> tag mapping, the span    *)
(* extractor and the Markdown formatter.                                   *)
(*                                                                         *)
(* Python strings are sequences of one-character strings, so that strip,   *)
(* substring search, lower-casing and number formatting are computed and   *)
(* not assumed.  A font size (a Python float) is an integer number of      *)
(* tenths of a point: 125 stands for 12.5.                                 *)
(***************************************************************************)
EXTENDS Integers, Sequences, FiniteSets, TLC

(***************************************************************************)
(* Bounds of the model.                                                    *)
(***************************************************************************)
MaxAnalyzed == 4
MaxAnalyzedPages == 2
MaxPages == 2
MaxRuns == 3
MaxSpans == 3

(***************************************************************************)
(* Input alphabets.                                                        *)
(***************************************************************************)
Arial == <<"A", "r", "i", "a", "l">>
Times == <<"T", "i", "m", "e", "s">>
ConsolasBold == <<"C", "o", "n", "s", "o", "l", "a", "s", "-", "B", "o", "l", "d">>
FontSizes == {90, 120, 145, 180}

(***************************************************************************)
(* Constants of the program.                                               *)
(***************************************************************************)
TEXT_BLOCK_TYPE == 0
MARKDOWN_PARAGRAPH_TAG == <<"<", "p", ">">>
MARKDOWN_CODE_TAG == <<"<", "c", "o", "d", "e", ">">>
MARKDOWN_SMALL_TAG == <<"<", "s", ">">>

(***************************************************************************)
(* Python string primitives.                                               *)
(***************************************************************************)
DigitChars == <<"0", "1", "2", "3", "4", "5", "6", "7", "8", "9">>

RECURSIVE str_int(_)
\* str(n) of a non-negative int.
str_int(n) ==
    IF n < 10 THEN <<DigitChars[n + 1]>>
    ELSE str_int(n \div 10) \o <<DigitChars[(n % 10) + 1]>>

\* str(x) of a float x with one decimal: "12.5", "9.0".
str_float(x) == str_int(x \div 10) \o <<".">> \o str_int(x % 10)

DigitValue(c) == (CHOOSE d \in 1..10 : DigitChars[d] = c) - 1

RECURSIVE int_of(_)
\* value of a string of decimal digits ("" is 0).
int_of(s) ==
    IF s = <<>> THEN 0
    ELSE 10 * int_of(SubSeq(s, 1, Len(s) - 1)) + DigitValue(s[Len(s)])

\* float(s) of "<digits>.<digit>": the digits before the point are the
\* units, the digit after it the tenths.
float_of(s) ==
    LET dot == CHOOSE i \in 1..Len(s) : s[i] = "."
    IN  10 * int_of(SubSeq(s, 1, dot - 1)) + int_of(SubSeq(s, dot + 1, Len(s)))

\* s.startswith(prefix)
startswith(s, prefix) ==
    /\ Len(prefix) <= Len(s)
    /\ SubSeq(s, 1, Len(prefix)) = prefix

RECURSIVE find_from(_, _, _)
\* needle in hay, scanning the start positions i, i+1, ...
find_from(hay, needle, i) ==
    IF i + Len(needle) - 1 > Len(hay) THEN FALSE
    ELSE IF startswith(SubSeq(hay, i, Len(hay)), needle) THEN TRUE
    ELSE find_from(hay, needle, i + 1)

\* needle in hay
str_in(needle, hay) == find_from(hay, needle, 1)

(***************************************************************************)
(* FontMetrics, create_identifier, extract_font_metrics_from_span.         *)
(***************************************************************************)
FontMetrics(size, font, flags, color) ==
    [size |-> size, font |-> font, flags |-> flags, color |-> color]

\* The pipeline calls it with include_color_and_flags = False only.
create_identifier(metrics) == str_float(metrics.size)

\* include_granular_details = False: flags and color are 0.
extract_font_metrics_from_span(span) == FontMetrics(span.size, span.font, 0, 0)

(***************************************************************************)
(* Ordered dictionaries: a sequence of <<key, value>> in insertion order.  *)
(***************************************************************************)
DictKeys(d) == {d[i][1] : i \in 1..Len(d)}

DictGet(d, k, default) ==
    IF k \in DictKeys(d)
    THEN d[CHOOSE i \in 1..Len(d) : d[i][1] = k][2]
    ELSE default

\* d[k] = v: an existing key keeps its position, a new key goes last.
DictSet(d, k, v) ==
    IF k \in DictKeys(d)
    THEN [i \in 1..Len(d) |-> IF d[i][1] = k THEN <<k, v>> ELSE d[i]]
    ELSE Append(d, <<k, v>>)

RECURSIVE InsertByCountDesc_before_ties(_, _)
\* Mutant: x goes before the elements whose count equals its own (the order
\* of a list sorted ascending and then reversed).
InsertByCountDesc_before_ties(sorted, x) ==
    IF sorted = <<>> THEN <<x>>
    ELSE IF sorted[1][2] > x[2]
         THEN <<sorted[1]>> \o InsertByCountDesc_before_ties(Tail(sorted), x)
         ELSE <<x>> \o sorted

RECURSIVE InsertByCountDesc(_, _)
\* x goes after every element whose count is >= its own (stable).
InsertByCountDesc(sorted, x) ==
    IF sorted = <<>> THEN <<x>>
    ELSE IF sorted[1][2] >= x[2]
         THEN <<sorted[1]>> \o InsertByCountDesc(Tail(sorted), x)
         ELSE <<x>> \o sorted

RECURSIVE sorted_by_count_reverse(_)
\* sorted(items, key=itemgetter(1), reverse=True): stable, descending.
sorted_by_count_reverse(items) ==
    IF items = <<>> THEN <<>>
    ELSE InsertByCountDesc(
             sorted_by_count_reverse(SubSeq(items, 1, Len(items) - 1)),
             items[Len(items)])

(***************************************************************************)
(* Tag mapper.                                                             *)
(***************************************************************************)
\* MARKDOWN_HEADER_PATTERN / f"<h{header_level + 1}>"
HeaderTag(level) == <<"<", "h">> \o str_int(level) \o <<">">>

\* Mutant: the least used identifier instead of the most used one.
_extract_paragraph_size_last(font_frequencies, font_styles) ==
    LET least_used_identifier == font_frequencies[Len(font_frequencies)][1]
    IN  font_styles[least_used_identifier].size

_extract_paragraph_size(font_frequencies, font_styles) ==
    LET most_used_identifier == font_frequencies[1][1]
    IN  font_styles[most_used_identifier].size

RECURSIVE SortDesc(_)
\* list.sort(reverse=True) of a set of numbers.
SortDesc(S) ==
    IF S = {} THEN <<>>
    ELSE LET m == CHOOSE x \in S : \A y \in S : y <= x
         IN  <<m>> \o SortDesc(S \ {m})

RECURSIVE SortAsc(_)
SortAsc(S) ==
    IF S = {} THEN <<>>
    ELSE LET m == CHOOSE x \in S : \A y \in S : x <= y
         IN  <<m>> \o SortAsc(S \ {m})

\* Mutant: sort() without reverse=True.
_extract_unique_font_sizes_ascending(font_frequencies) ==
    SortAsc({float_of(font_frequencies[i][1]) : i \in 1..Len(font_frequencies)})

_extract_unique_font_sizes(font_frequencies) ==
    LET font_sizes == [i \in 1..Len(font_frequencies) |->
                           float_of(font_frequencies[i][1])]
        font_sizes_unique == {font_sizes[i] : i \in 1..Len(font_sizes)}
    IN  SortDesc(font_sizes_unique)

_determine_tag_for_size(size, paragraph_size, header_level, font_styles) ==
    LET identifier == str_float(size)
    IN  IF identifier \notin DOMAIN font_styles THEN MARKDOWN_PARAGRAPH_TAG
        ELSE LET font_style == font_styles[identifier]
             IN  IF font_style.size = paragraph_size
                 THEN MARKDOWN_PARAGRAPH_TAG
                 ELSE IF font_style.size > paragraph_size
                      THEN HeaderTag(header_level + 1)
                      ELSE MARKDOWN_SMALL_TAG

RECURSIVE BuildLoop(_, _, _, _, _)
\* The loop of build_from_fonts over font_sizes[i..]: the map so far and the
\* header_level counter.
BuildLoop(font_sizes, i, paragraph_size, font_styles, acc) ==
    IF i > Len(font_sizes) THEN acc.size_to_tag
    ELSE LET size == font_sizes[i]
             tag == _determine_tag_for_size(size, paragraph_size,
                                            acc.header_level, font_styles)
             map == [s \in DOMAIN acc.size_to_tag \cup {size} |->
                        IF s = size THEN tag ELSE acc.size_to_tag[s]]
             lvl == IF startswith(tag, <<"<", "h">>)
                    THEN acc.header_level + 1
                    ELSE acc.header_level
         IN  BuildLoop(font_sizes, i + 1, paragraph_size, font_styles,
                       [size_to_tag |-> map, header_level |-> lvl])

EmptyMap == [s \in {} |-> <<>>]

build_from_fonts(font_frequencies, font_styles) ==
    IF font_frequencies = <<>> THEN EmptyMap
    ELSE LET paragraph_size == _extract_paragraph_size(font_frequencies, font_styles)
             font_sizes == _extract_unique_font_sizes(font_frequencies)
         IN  BuildLoop(font_sizes, 1, paragraph_size, font_styles,
                       [size_to_tag |-> EmptyMap, header_level |-> 0])

(***************************************************************************)
(* State.                                                                  *)
(***************************************************************************)
VARIABLES
    pc,                \* the pass the pipeline is in
    a_page,            \* analysis: "none", "ok" (decoded) or "failed"
    a_pages,           \* analysis: pages visited
    a_runs,            \* analysis: text runs visited
    a_seen,            \* history: the sizes of the runs visited, in order
    font_styles,       \* identifier -> FontMetrics
    font_count_map,    \* identifier -> count, in insertion order
    font_frequencies,  \* the sorted ranking
    size_to_tag,       \* FontSizeTagMapping.size_to_tag
    document_name,     \* document.name
    e_loc,             \* extraction: "doc" (no page yet), "page" (between
                       \* blocks), "block" or "failed" (the page did not decode)
    page_height,       \* page.rect.height of the page being traversed
    e_pages,           \* extraction: pages decoded so far
    e_blocks,          \* extraction: text blocks traversed so far
    text_spans,        \* the TextSpans emitted so far
    first_span,
    previous_span,
    current_block_tag,
    current_block_content,
    runs_seen,         \* history: the runs visited, in traversal order
    gen,               \* history: number of accumulators started so far
    span_gen,          \* history: span_gen[k] is the accumulator text_spans[k] held
    f_i,               \* formatter: index of the next TextSpan
    markdown_output,
    in_code_block,
    file_exists,       \* os.path.exists(file_path)
    document_open,     \* the handle fitz.open returned is open
    output_file,       \* the file at output_path
    raised             \* the exception that ended the conversion, or "none"

analysis_vars == <<a_page, a_pages, a_runs, a_seen, font_styles, font_count_map,
                   font_frequencies>>

format_vars == <<f_i, markdown_output, in_code_block>>

convert_vars == <<file_exists, document_open, output_file, raised>>

extract_vars == <<document_name, e_loc, page_height, e_pages, e_blocks,
                  text_spans, first_span, previous_span, current_block_tag,
                  current_block_content, runs_seen, gen, span_gen>>

vars == <<pc, analysis_vars, size_to_tag, extract_vars, format_vars, convert_vars>>

(***************************************************************************)
(* analyze_document_fonts.                                                 *)
(***************************************************************************)
AnalysisVarsInit ==
    /\ a_page = "none"
    /\ a_pages = 0
    /\ a_runs = 0
    /\ a_seen = <<>>
    /\ font_styles = [k \in {} |-> FontMetrics(0, <<>>, 0, 0)]
    /\ font_count_map = <<>>
    /\ font_frequencies = <<>>
    /\ size_to_tag = EmptyMap

\* Mutant: no try statement around page.get_text, the exception leaves the
\* analysis.
AnalyzeNextPage_propagates(decodes) ==
    /\ pc = "analyze"
    /\ a_pages < MaxAnalyzedPages
    /\ a_pages' = a_pages + 1
    /\ a_page' = IF decodes THEN "ok" ELSE "failed"
    /\ IF decodes THEN UNCHANGED <<pc, raised>>
       ELSE pc' = "failed" /\ raised' = [type |-> "Exception", in |-> "analyze"]
    /\ UNCHANGED <<a_runs, a_seen, font_styles, font_count_map, font_frequencies,
                   size_to_tag, extract_vars, format_vars, file_exists,
                   document_open, output_file>>

\* for page in doc: try: blocks = page.get_text("dict")["blocks"]
\*                  except Exception: continue
AnalyzeNextPage(decodes) ==
    /\ pc = "analyze"
    /\ a_pages < MaxAnalyzedPages
    /\ a_pages' = a_pages + 1
    /\ a_page' = IF decodes THEN "ok" ELSE "failed"
    /\ UNCHANGED <<pc, a_runs, a_seen, font_styles, font_count_map, font_frequencies,
                   size_to_tag, extract_vars, format_vars, convert_vars>>

\* The body of the innermost loop, for one span of a text block.
AnalyzeSpan(span) ==
    /\ pc = "analyze"
    /\ a_page = "ok"
    /\ a_runs < MaxAnalyzed
    /\ LET metrics == extract_font_metrics_from_span(span)
           identifier == create_identifier(metrics)
       IN  /\ font_styles' = [k \in DOMAIN font_styles \cup {identifier} |->
                                 IF k = identifier THEN metrics ELSE font_styles[k]]
           /\ font_count_map' = DictSet(font_count_map, identifier,
                                        DictGet(font_count_map, identifier, 0) + 1)
    /\ a_runs' = a_runs + 1
    /\ a_seen' = Append(a_seen, span.size)
    /\ UNCHANGED <<pc, a_page, a_pages, font_frequencies, size_to_tag, extract_vars,
                   format_vars, convert_vars>>

\* The end of the page loop: sort and return the DocumentFontAnalysis.
AnalyzeReturn ==
    /\ pc = "analyze"
    /\ font_frequencies' = sorted_by_count_reverse(font_count_map)
    /\ pc' = "map"
    /\ UNCHANGED <<a_page, a_pages, a_runs, a_seen, font_styles, font_count_map,
                   size_to_tag,
                   extract_vars, format_vars, convert_vars>>

\* FontSizeTagMapping.build_from_fonts on the analysis.
BuildMap ==
    /\ pc = "map"
    /\ size_to_tag' = build_from_fonts(font_frequencies, font_styles)
    /\ pc' = "mapped"
    /\ UNCHANGED <<analysis_vars, extract_vars, format_vars, convert_vars>>

(***************************************************************************)
(* More string primitives, used by the extractor and the formatter.        *)
(***************************************************************************)
UpperChars == <<"A", "B", "C", "D", "E", "F", "G", "H", "I", "J", "K", "L", "M",
                "N", "O", "P", "Q", "R", "S", "T", "U", "V", "W", "X", "Y", "Z">>
LowerChars == <<"a", "b", "c", "d", "e", "f", "g", "h", "i", "j", "k", "l", "m",
                "n", "o", "p", "q", "r", "s", "t", "u", "v", "w", "x", "y", "z">>

lower_char(c) ==
    IF \E i \in 1..Len(UpperChars) : UpperChars[i] = c
    THEN LowerChars[CHOOSE i \in 1..Len(UpperChars) : UpperChars[i] = c]
    ELSE c

\* s.lower()
lower(s) == [i \in 1..Len(s) |-> lower_char(s[i])]

\* s.endswith(suffix)
endswith(s, suffix) ==
    /\ Len(suffix) <= Len(s)
    /\ SubSeq(s, Len(s) - Len(suffix) + 1, Len(s)) = suffix

\* The characters str.strip() and the regex class \s remove.
Whitespace == {" ", "\n", "\t"}

RECURSIVE lstrip(_)
lstrip(s) ==
    IF s # <<>> /\ s[1] \in Whitespace THEN lstrip(Tail(s)) ELSE s

RECURSIVE rstrip(_)
rstrip(s) ==
    IF s # <<>> /\ s[Len(s)] \in Whitespace
    THEN rstrip(SubSeq(s, 1, Len(s) - 1))
    ELSE s

\* s.strip()
strip(s) == rstrip(lstrip(s))

(***************************************************************************)
(* DocumentProcessor.                                                      *)
(***************************************************************************)
PDF_HEADER_MARGIN == 50
PDF_FOOTER_MARGIN == 50
CODE_FONT_KEYWORDS ==
    << <<"m", "o", "n", "o">>,
       <<"c", "o", "u", "r", "i", "e", "r">>,
       <<"c", "o", "d", "e">>,
       <<"c", "o", "n", "s", "o", "l", "a", "s">> >>

PageMargins(header, footer) == [header |-> header, footer |-> footer]

\* Mutant: the suffix is compared without lower().
should_skip_margin_filtering_case_sensitive(name) ==
    ~endswith(name, <<".", "p", "d", "f">>)

should_skip_margin_filtering(name) ==
    ~endswith(lower(name), <<".", "p", "d", "f">>)

\* Mutant: the keywords are looked up in the name as it is written.
is_code_font_case_sensitive(font_name) ==
    \E k \in 1..Len(CODE_FONT_KEYWORDS) : str_in(CODE_FONT_KEYWORDS[k], font_name)

is_code_font(font_name) ==
    LET font_lower == lower(font_name)
    IN  \E k \in 1..Len(CODE_FONT_KEYWORDS) : str_in(CODE_FONT_KEYWORDS[k], font_lower)

get_margins_for_document(name) ==
    IF should_skip_margin_filtering(name)
    THEN PageMargins(0, 0)
    ELSE PageMargins(PDF_HEADER_MARGIN, PDF_FOOTER_MARGIN)

TextSpan(tag, content) == [tag |-> tag, content |-> content]

_get_span_tag(span, size_tag) ==
    IF is_code_font(span.font) THEN MARKDOWN_CODE_TAG
    ELSE IF span.size \in DOMAIN size_tag THEN size_tag[span.size]
         ELSE MARKDOWN_PARAGRAPH_TAG

\* Mutant: no separator between runs of different fonts.
_append_to_block_no_space(current_content, current_span, previous) ==
    LET text == current_span.text
    IN  IF text # <<" ">>
        THEN IF previous.font = current_span.font
             THEN current_content \o (IF text # <<>> THEN <<" ">> \o text ELSE <<>>)
             ELSE current_content \o text
        ELSE current_content

\* Mutant: a run " " is appended like any other text.
_append_to_block_keeps_space(current_content, current_span, previous) ==
    LET text == current_span.text
    IN  IF previous.font = current_span.font
        THEN current_content \o (IF text # <<>> THEN <<" ">> \o text ELSE <<>>)
        ELSE current_content \o <<" ">> \o text

_append_to_block(current_content, current_span, previous) ==
    LET text == current_span.text
    IN  IF text # <<" ">>
        THEN IF previous.font = current_span.font
             THEN current_content \o (IF text # <<>> THEN <<" ">> \o text ELSE <<>>)
             ELSE current_content \o <<" ">> \o text
        ELSE current_content

(***************************************************************************)
(* DocumentProcessor.extract_text_with_tags, one step of its loops per     *)
(* action.  The line loop has no state of its own: the spans of a block    *)
(* are visited in line order, one ExtractSpan each.  A text block has at   *)
(* least one span (one without spans would change nothing: the accumulator *)
(* is blank whenever a block is entered).                                  *)
(***************************************************************************)
EmptyDict == [k \in {} |-> <<>>]

\* The file at output_path before the conversion, and the state of the
\* conversion once the document is open.
NoFile == [exists |-> FALSE, content |-> <<>>]

ConvertVarsOpened ==
    /\ file_exists = TRUE
    /\ document_open = TRUE
    /\ output_file = NoFile
    /\ raised = [type |-> "none", in |-> "none"]

FormatVarsInit ==
    /\ f_i = 1
    /\ markdown_output = <<>>
    /\ in_code_block = FALSE

ExtractVarsInit ==
    /\ e_loc = "doc"
    /\ page_height = 0
    /\ e_pages = 0
    /\ e_blocks = 0
    /\ text_spans = <<>>
    /\ first_span = TRUE
    /\ previous_span = EmptyDict
    /\ current_block_tag = <<>>
    /\ current_block_content = <<>>
    /\ runs_seen = <<>>
    /\ gen = 0
    /\ span_gen = <<>>

\* for page in document: try: blocks = page.get_text("dict")["blocks"]
\*                       except Exception: continue
\*                       page_height = page.rect.height
ExtractNextPage(decodes, height) ==
    /\ pc = "extract"
    /\ e_loc \in {"doc", "page", "failed"}
    /\ decodes => e_pages < MaxPages
    /\ e_pages' = IF decodes THEN e_pages + 1 ELSE e_pages
    /\ e_loc' = IF decodes THEN "page" ELSE "failed"
    /\ page_height' = IF decodes THEN height ELSE page_height
    /\ UNCHANGED <<pc, analysis_vars, size_to_tag, document_name, e_blocks,
                   text_spans, first_span, previous_span, current_block_tag,
                   current_block_content, runs_seen, gen, span_gen, format_vars, convert_vars>>

\* for block in blocks: the two `continue` tests at the head of the body.
BlockIsSkipped(block) ==
    \/ block.type # TEXT_BLOCK_TYPE
    \/ /\ ~should_skip_margin_filtering(document_name)
       /\ LET margins == get_margins_for_document(document_name)
              bbox == block.bbox
          IN  \/ bbox[2] < margins.header
              \/ bbox[4] > (page_height - margins.footer)

ExtractBlock(block) ==
    /\ pc = "extract"
    /\ e_loc = "page"
    /\ Len(runs_seen) < MaxRuns
    /\ e_blocks' = IF BlockIsSkipped(block) THEN e_blocks ELSE e_blocks + 1
    /\ e_loc' = IF BlockIsSkipped(block) THEN "page" ELSE "block"
    /\ UNCHANGED <<pc, analysis_vars, size_to_tag, document_name, page_height,
                   e_pages, text_spans, first_span, previous_span,
                   current_block_tag, current_block_content, runs_seen, gen,
                   span_gen, format_vars, convert_vars>>

\* Mutant: a run is never merged into the accumulator.
merges_with_block_never(span_tag) ==
    FALSE

\* Mutant: the comparison of the tags inverted.
merges_with_block_inverted(span_tag) ==
    ~first_span /\ span_tag # current_block_tag

\* `if first_span: ... else: if span_tag == current_block_tag:` the run goes
\* into the accumulator as it is.
merges_with_block(span_tag) ==
    ~first_span /\ span_tag = current_block_tag

\* Mutant: the accumulator is not emitted when the tag changes.
ExtractSpan_no_emit(span) ==
    /\ pc = "extract"
    /\ e_loc = "block"
    /\ Len(runs_seen) < MaxRuns
    /\ LET span_tag == _get_span_tag(span, size_to_tag)
           same == merges_with_block(span_tag)
       IN  /\ first_span' = FALSE
           /\ current_block_tag' = IF same THEN current_block_tag ELSE span_tag
           /\ current_block_content' =
                  IF first_span THEN span.text
                  ELSE IF same
                       THEN _append_to_block(current_block_content, span, previous_span)
                       ELSE span.text
           /\ gen' = IF same THEN gen ELSE gen + 1
           /\ runs_seen' = Append(runs_seen,
                  [page |-> e_pages, block |-> e_blocks, span |-> span,
                   tag |-> span_tag, merged |-> same,
                   gen |-> IF same THEN gen ELSE gen + 1])
    /\ previous_span' = span
    /\ UNCHANGED <<pc, analysis_vars, size_to_tag, document_name, e_loc,
                   page_height, e_pages, e_blocks, text_spans, span_gen,
                   format_vars, convert_vars>>

\* The body of the span loop.
ExtractSpan(span) ==
    /\ pc = "extract"
    /\ e_loc = "block"
    /\ Len(runs_seen) < MaxRuns
    /\ LET span_tag == _get_span_tag(span, size_to_tag)
           same == merges_with_block(span_tag)
           emit == ~first_span /\ ~same /\ strip(current_block_content) # <<>>
       IN  /\ first_span' = FALSE
           /\ current_block_tag' = IF same THEN current_block_tag ELSE span_tag
           /\ current_block_content' =
                  IF first_span THEN span.text
                  ELSE IF same
                       THEN _append_to_block(current_block_content, span, previous_span)
                       ELSE span.text
           /\ text_spans' =
                  IF emit
                  THEN Append(text_spans, TextSpan(current_block_tag, current_block_content))
                  ELSE text_spans
           /\ span_gen' = IF emit THEN Append(span_gen, gen) ELSE span_gen
           /\ gen' = IF same THEN gen ELSE gen + 1
           /\ runs_seen' = Append(runs_seen,
                  [page |-> e_pages, block |-> e_blocks, span |-> span,
                   tag |-> span_tag, merged |-> same,
                   gen |-> IF same THEN gen ELSE gen + 1])
    /\ previous_span' = span
    /\ UNCHANGED <<pc, analysis_vars, size_to_tag, document_name, e_loc,
                   page_height, e_pages, e_blocks, format_vars, convert_vars>>

\* Mutant: the accumulator is not emptied after the flush.
ExtractBlockEnd_no_reset ==
    /\ pc = "extract"
    /\ e_loc = "block"
    /\ runs_seen # <<>> /\ runs_seen[Len(runs_seen)].block = e_blocks
    /\ e_loc' = "page"
    /\ IF strip(current_block_content) # <<>>
       THEN /\ text_spans' = Append(text_spans,
                                    TextSpan(current_block_tag, current_block_content))
            /\ span_gen' = Append(span_gen, gen)
            /\ UNCHANGED <<current_block_content, gen>>
       ELSE UNCHANGED <<text_spans, current_block_content, span_gen, gen>>
    /\ UNCHANGED <<pc, analysis_vars, size_to_tag, document_name, page_height,
                   e_pages, e_blocks, first_span, previous_span,
                   current_block_tag, runs_seen, format_vars, convert_vars>>

\* Mutant: the flushed TextSpan is put at the head of the list.
ExtractBlockEnd_prepends ==
    /\ pc = "extract"
    /\ e_loc = "block"
    /\ runs_seen # <<>> /\ runs_seen[Len(runs_seen)].block = e_blocks
    /\ e_loc' = "page"
    /\ IF strip(current_block_content) # <<>>
       THEN /\ text_spans' = <<TextSpan(current_block_tag, current_block_content)>>
                                \o text_spans
            /\ current_block_content' = <<>>
            /\ span_gen' = Append(span_gen, gen)
            /\ gen' = gen + 1
       ELSE UNCHANGED <<text_spans, current_block_content, span_gen, gen>>
    /\ UNCHANGED <<pc, analysis_vars, size_to_tag, document_name, page_height,
                   e_pages, e_blocks, first_span, previous_span,
                   current_block_tag, runs_seen, format_vars, convert_vars>>

\* After the line loop of a block: flush the accumulator.
ExtractBlockEnd ==
    /\ pc = "extract"
    /\ e_loc = "block"
    /\ runs_seen # <<>> /\ runs_seen[Len(runs_seen)].block = e_blocks
    /\ e_loc' = "page"
    /\ IF strip(current_block_content) # <<>>
       THEN /\ text_spans' = Append(text_spans,
                                    TextSpan(current_block_tag, current_block_content))
            /\ current_block_content' = <<>>
            /\ span_gen' = Append(span_gen, gen)
            /\ gen' = gen + 1
       ELSE UNCHANGED <<text_spans, current_block_content, span_gen, gen>>
    /\ UNCHANGED <<pc, analysis_vars, size_to_tag, document_name, page_height,
                   e_pages, e_blocks, first_span, previous_span,
                   current_block_tag, runs_seen, format_vars, convert_vars>>

\* return text_spans
ExtractReturn ==
    /\ pc = "extract"
    /\ e_loc \in {"doc", "page", "failed"}
    /\ pc' = "format"
    /\ UNCHANGED <<analysis_vars, size_to_tag, extract_vars, format_vars, convert_vars>>

(***************************************************************************)
(* Inputs of the extractor.                                                *)
(***************************************************************************)
BookPDF == <<"b", ".", "P", "D", "F">>
PageHeights == {200}
\* bbox = (x0, y0, x1, y1): a block in the header zone, in the body, in the
\* footer zone of a page 200 high.
Blocks == [type : {0, 1}, bbox : {<<0, 10, 100, 40>>, <<0, 60, 100, 140>>,
                                   <<0, 160, 100, 195>>}]
\* Body-size runs "", " " and "a", a run in a second text font and of a size
\* the analysis below has not seen, and a title-size run in a text font and
\* in a code font.
ExtractSpans ==
    [text : {<<>>, <<" ">>, <<"a">>}, size : {120}, font : {Arial}]
    \cup [text : {<<"a">>}, size : {145}, font : {Times}]
    \cup [text : {<<"a">>}, size : {180}, font : {Arial, ConsolasBold}]

\* The analysis the size -> tag map of the extraction is built from: a
\* document of body text, a title and a footnote.
SampleCountMaps ==
    { << <<str_float(120), 3>>, <<str_float(180), 1>>, <<str_float(90), 1>> >> }

StylesOf(count_map) ==
    [k \in DictKeys(count_map) |-> FontMetrics(float_of(k), Arial, 0, 0)]

InitExtract ==
    /\ pc = "extract"
    /\ a_page = "ok"
    /\ a_pages = 1
    /\ \E cm \in SampleCountMaps :
          /\ font_count_map = cm
          /\ a_runs = 0
          /\ a_seen = <<>>
          /\ font_styles = StylesOf(cm)
          /\ font_frequencies = sorted_by_count_reverse(cm)
          /\ size_to_tag = build_from_fonts(sorted_by_count_reverse(cm), StylesOf(cm))
    /\ document_name = BookPDF
    /\ ExtractVarsInit
    /\ FormatVarsInit
    /\ ConvertVarsOpened

NextExtract ==
    \/ \E decodes \in BOOLEAN, height \in PageHeights : ExtractNextPage(decodes, height)
    \/ \E block \in Blocks : ExtractBlock(block)
    \/ \E span \in ExtractSpans : ExtractSpan(span)
    \/ ExtractBlockEnd
    \/ ExtractReturn

SpecExtract == InitExtract /\ [][NextExtract]_vars

(***************************************************************************)
(* Markdown formatter.                                                     *)
(***************************************************************************)
MAX_HEADER_LEVEL == 4
\* The grave accent (U+0060), which a TLA+ string literal cannot hold.
GraveAccent == "grave"
\* The three characters of a fence line.
Fence == <<GraveAccent, GraveAccent, GraveAccent>>

RECURSIVE collapse_whitespace(_)
\* re.sub(r'\s+', ' ', s): every maximal run of whitespace becomes one space.
collapse_whitespace(s) ==
    IF s = <<>> THEN <<>>
    ELSE IF s[1] \in Whitespace
         THEN <<" ">> \o collapse_whitespace(lstrip(s))
         ELSE <<s[1]>> \o collapse_whitespace(Tail(s))

IsDigit(c) == \E d \in 1..10 : DigitChars[d] = c

RECURSIVE leading_digits(_)
leading_digits(s) ==
    IF s # <<>> /\ IsDigit(s[1]) THEN <<s[1]>> \o leading_digits(Tail(s)) ELSE <<>>

RECURSIVE findall_digits(_)
\* re.findall(r'\d+', s): the maximal runs of digits of s, left to right.
findall_digits(s) ==
    IF s = <<>> THEN <<>>
    ELSE IF IsDigit(s[1])
         THEN LET run == leading_digits(s)
              IN  <<run>> \o findall_digits(SubSeq(s, Len(run) + 1, Len(s)))
         ELSE findall_digits(Tail(s))

RECURSIVE repeat(_, _)
\* s * n
repeat(s, n) == IF n <= 0 THEN <<>> ELSE s \o repeat(s, n - 1)

min(a, b) == IF a <= b THEN a ELSE b

\* Mutant: every code span opens a fence.
_append_code_block_always_opens(output, content, in_code) ==
    output \o <<"\n">> \o Fence \o <<"\n">> \o content \o <<"\n">>

_append_code_block(output, content, in_code) ==
    LET opened == IF ~in_code THEN output \o <<"\n">> \o Fence \o <<"\n">> ELSE output
    IN  opened \o content \o <<"\n">>

\* Mutant: the level is not capped at MAX_HEADER_LEVEL.
_append_header_no_cap(output, tag, content) ==
    LET found == findall_digits(tag)
    IN  IF found # <<>>
        THEN LET prefix == repeat(<<"#">>, int_of(found[1]))
             IN  output \o <<"\n">> \o prefix \o <<" ">> \o content \o <<"\n", "\n">>
        ELSE output \o content \o <<"\n", "\n">>

_append_header(output, tag, content) ==
    LET found == findall_digits(tag)
    IN  IF found # <<>>
        THEN LET level == min(int_of(found[1]), MAX_HEADER_LEVEL)
                 prefix == repeat(<<"#">>, level)
             IN  output \o <<"\n">> \o prefix \o <<" ">> \o content \o <<"\n", "\n">>
        ELSE \* IndexError
             output \o content \o <<"\n", "\n">>

_append_formatted_content(output, tag, content) ==
    IF str_in(<<"<", "h">>, tag) THEN _append_header(output, tag, content)
    ELSE IF str_in(MARKDOWN_SMALL_TAG, tag)
         THEN output \o <<"*">> \o content \o <<"*", "\n", "\n">>
         ELSE output \o content \o <<"\n", "\n">>

\* Mutant: no `if not content: continue`.
FormatLoopBody_no_skip(st, text_span) ==
    LET content == collapse_whitespace(strip(text_span.content))
    IN  IF str_in(MARKDOWN_CODE_TAG, text_span.tag)
        THEN [markdown_output |->
                  _append_code_block(st.markdown_output, content, st.in_code_block),
              in_code_block |-> TRUE]
        ELSE LET closed == IF st.in_code_block
                           THEN st.markdown_output \o Fence \o <<"\n", "\n">>
                           ELSE st.markdown_output
             IN  [markdown_output |->
                      _append_formatted_content(closed, text_span.tag, content),
                  in_code_block |-> FALSE]

\* The body of the loop of format_markdown, on the state st =
\* [markdown_output, in_code_block].
FormatLoopBody(st, text_span) ==
    LET stripped == strip(text_span.content)
        content == collapse_whitespace(stripped)
    IN  IF stripped = <<>> THEN st
        ELSE IF str_in(MARKDOWN_CODE_TAG, text_span.tag)
             THEN [markdown_output |->
                       _append_code_block(st.markdown_output, content, st.in_code_block),
                   in_code_block |-> TRUE]
             ELSE LET closed == IF st.in_code_block
                                THEN st.markdown_output \o Fence \o <<"\n", "\n">>
                                ELSE st.markdown_output
                  IN  [markdown_output |->
                           _append_formatted_content(closed, text_span.tag, content),
                       in_code_block |-> FALSE]

\* Mutant: no closing fence after the loop.
FormatAfterLoop_no_close(st) == st.markdown_output

\* After the loop of format_markdown: the returned string.
FormatAfterLoop(st) ==
    IF st.in_code_block THEN st.markdown_output \o Fence \o <<"\n">>
    ELSE st.markdown_output

RECURSIVE FormatLoop(_, _, _)
FormatLoop(st, spans, i) ==
    IF i > Len(spans) THEN st
    ELSE FormatLoop(FormatLoopBody(st, spans[i]), spans, i + 1)

\* format_markdown(text_spans) as a function of its argument.
format_markdown(spans) ==
    FormatAfterLoop(FormatLoop([markdown_output |-> <<>>, in_code_block |-> FALSE],
                               spans, 1))

\* One iteration of `for text_span in text_spans`.
FormatSpan ==
    /\ pc = "format"
    /\ f_i <= Len(text_spans)
    /\ LET st == FormatLoopBody([markdown_output |-> markdown_output,
                                 in_code_block |-> in_code_block], text_spans[f_i])
       IN  /\ markdown_output' = st.markdown_output
           /\ in_code_block' = st.in_code_block
    /\ f_i' = f_i + 1
    /\ UNCHANGED <<pc, analysis_vars, size_to_tag, extract_vars, convert_vars>>

\* The end of the loop: close an open fence and return.
FormatReturn ==
    /\ pc = "format"
    /\ f_i > Len(text_spans)
    /\ markdown_output' = FormatAfterLoop([markdown_output |-> markdown_output,
                                          in_code_block |-> in_code_block])
    /\ pc' = "formatted"
    /\ UNCHANGED <<analysis_vars, size_to_tag, extract_vars, f_i, in_code_block,
                   convert_vars>>

(***************************************************************************)
(* The formatter on its own, on every sequence of at most MaxSpans         *)
(* TextSpans over FormatTags and FormatContents.                           *)
(***************************************************************************)
FormatTags == {MARKDOWN_PARAGRAPH_TAG, MARKDOWN_CODE_TAG, MARKDOWN_SMALL_TAG,
               HeaderTag(1), HeaderTag(5)}
FormatContents == {<<>>, <<" ">>, <<" ", "a", " ", "\n", "b">>}
FormatSpans == [tag : FormatTags, content : FormatContents]

InitFormat ==
    /\ pc = "format"
    /\ AnalysisVarsInit
    /\ document_name = BookPDF
    /\ e_loc = "doc"
    /\ page_height = 0
    /\ e_pages = 0
    /\ e_blocks = 0
    /\ \E n \in 0..MaxSpans : text_spans \in [1..n -> FormatSpans]
    /\ first_span = TRUE
    /\ previous_span = EmptyDict
    /\ current_block_tag = <<>>
    /\ current_block_content = <<>>
    /\ runs_seen = <<>>
    /\ gen = 0
    /\ span_gen = <<>>
    /\ FormatVarsInit
    /\ ConvertVarsOpened

NextFormat ==
    \/ FormatSpan
    \/ FormatReturn

SpecFormat == InitFormat /\ [][NextFormat]_vars

(***************************************************************************)
(* The mapper on its own: analysis, then the map.                          *)
(***************************************************************************)
AnalysisSpans == [size : FontSizes, font : {Arial, ConsolasBold}]

InitMapper ==
    /\ pc = "analyze"
    /\ AnalysisVarsInit
    /\ document_name = BookPDF
    /\ ExtractVarsInit
    /\ FormatVarsInit
    /\ ConvertVarsOpened

NextMapper ==
    \/ \E decodes \in BOOLEAN : AnalyzeNextPage(decodes)
    \/ \E span \in AnalysisSpans : AnalyzeSpan(span)
    \/ AnalyzeReturn
    \/ BuildMap

SpecMapper == InitMapper /\ [][NextMapper]_vars

(***************************************************************************)
(* convert_document_to_markdown: the existence test, then, inside the try  *)
(* statement, the open, the four passes and the write.  An exception       *)
(* raised inside the try statement is caught by one of the handlers, which *)
(* print it and let the function return; FileNotFoundError is raised to    *)
(* the caller.  Either way the conversion has ended: pc = "failed".        *)
(***************************************************************************)
NoException == [type |-> "none", in |-> "none"]

\* raise / except: the conversion ends with the exception of the given type,
\* raised in the given step.
Raise(type, in) ==
    /\ pc' = "failed"
    /\ raised' = [type |-> type, in |-> in]

\* if not os.path.exists(file_path): raise FileNotFoundError(...)
CheckExists ==
    /\ pc = "start"
    /\ IF file_exists
       THEN pc' = "open" /\ UNCHANGED raised
       ELSE Raise("FileNotFoundError", "exists")
    /\ UNCHANGED <<analysis_vars, size_to_tag, extract_vars, format_vars,
                   file_exists, document_open, output_file>>

\* document = fitz.open(file_path), which raises for a file it cannot decode.
OpenDocument(ok) ==
    /\ pc = "open"
    /\ IF ok
       THEN pc' = "analyze" /\ document_open' = TRUE /\ UNCHANGED raised
       ELSE Raise("Exception", "open") /\ UNCHANGED document_open
    /\ UNCHANGED <<analysis_vars, size_to_tag, extract_vars, format_vars,
                   file_exists, output_file>>

\* analyze_document_fonts, lines 73-83: only page.get_text is inside a try
\* statement, so an exception raised while a block of a decoded page is read
\* (block['type'], block["lines"], line["spans"], span['size']) leaves the
\* function and is caught by convert_document_to_markdown.
AnalyzeBlockFails ==
    /\ pc = "analyze"
    /\ a_page = "ok"
    /\ Raise("Exception", "analyze")
    /\ UNCHANGED <<analysis_vars, size_to_tag, extract_vars, format_vars,
                   file_exists, document_open, output_file>>

\* Mutant: an empty output file is created before the error is reported.
RaiseIfEmpty_writes_empty ==
    /\ pc = "map"
    /\ Len(font_frequencies) = 0
    /\ Raise("ValueError", "is_empty")
    /\ output_file' = [exists |-> TRUE, content |-> <<>>]
    /\ UNCHANGED <<analysis_vars, size_to_tag, extract_vars, format_vars,
                   file_exists, document_open>>

\* if font_analysis.is_empty(): raise ValueError("No text found. ...")
RaiseIfEmpty ==
    /\ pc = "map"
    /\ Len(font_frequencies) = 0
    /\ Raise("ValueError", "is_empty")
    /\ UNCHANGED <<analysis_vars, size_to_tag, extract_vars, format_vars,
                   file_exists, document_open, output_file>>

\* The call of build_from_fonts, reached when is_empty() is false.
BuildMapIfNotEmpty ==
    /\ Len(font_frequencies) # 0
    /\ BuildMap

\* The call of extract_text_with_tags: lines 193-198 set its local variables.
CallExtract ==
    /\ pc = "mapped"
    /\ pc' = "extract"
    /\ ExtractVarsInit
    /\ UNCHANGED <<analysis_vars, size_to_tag, extract_vars, format_vars,
                   convert_vars>>

\* extract_text_with_tags, lines 206-241: as in the analysis, an exception
\* raised after page.get_text has returned leaves the function.
ExtractBlockFails ==
    /\ pc = "extract"
    /\ e_loc \in {"page", "block"}
    /\ Raise("Exception", "extract")
    /\ UNCHANGED <<analysis_vars, size_to_tag, extract_vars, format_vars,
                   file_exists, document_open, output_file>>

\* _write_markdown_file: open(output_path, 'w') creates or empties the file,
\* file.write writes the content.  Either call can raise OSError.
WriteFile(result) ==
    /\ pc = "formatted"
    /\ CASE result = "written" ->
               /\ output_file' = [exists |-> TRUE, content |-> markdown_output]
               /\ pc' = "done"
               /\ UNCHANGED raised
         [] result = "open fails" ->
               /\ UNCHANGED output_file
               /\ Raise("Exception", "write")
         [] result = "write fails" ->
               /\ output_file' = [exists |-> TRUE, content |-> <<>>]
               /\ Raise("Exception", "write")
    /\ UNCHANGED <<analysis_vars, size_to_tag, extract_vars, format_vars,
                   file_exists, document_open>>

(***************************************************************************)
(* The whole conversion, on documents of at most MaxAnalyzedPages pages    *)
(* read by the analysis and MaxPages decoded pages read by the extractor.  *)
(***************************************************************************)
BookEpub == <<"b", ".", "e", "p", "u", "b">>
DocumentNames == {BookPDF, BookEpub}
ConvertAnalysisSpans == {[size |-> 120, font |-> Arial]}
ConvertExtractSpans ==
    {[text |-> <<"a">>, size |-> 120, font |-> Arial],
     [text |-> <<"a">>, size |-> 180, font |-> ConsolasBold]}
WriteResults == {"written", "open fails", "write fails"}

InitConvert ==
    /\ pc = "start"
    /\ AnalysisVarsInit
    /\ document_name \in DocumentNames
    /\ ExtractVarsInit
    /\ FormatVarsInit
    /\ file_exists \in BOOLEAN
    /\ document_open = FALSE
    /\ output_file = NoFile
    /\ raised = NoException

NextConvert ==
    \/ CheckExists
    \/ \E ok \in BOOLEAN : OpenDocument(ok)
    \/ \E decodes \in BOOLEAN : AnalyzeNextPage(decodes)
    \/ \E span \in ConvertAnalysisSpans : AnalyzeSpan(span)
    \/ AnalyzeBlockFails
    \/ AnalyzeReturn
    \/ RaiseIfEmpty
    \/ BuildMapIfNotEmpty
    \/ CallExtract
    \/ \E decodes \in BOOLEAN, height \in PageHeights : ExtractNextPage(decodes, height)
    \/ \E block \in Blocks : ExtractBlock(block)
    \/ \E span \in ConvertExtractSpans : ExtractSpan(span)
    \/ ExtractBlockEnd
    \/ ExtractBlockFails
    \/ ExtractReturn
    \/ FormatSpan
    \/ FormatReturn
    \/ \E result \in WriteResults : WriteFile(result)

SpecConvert == InitConvert /\ [][NextConvert]_vars

(***************************************************************************)
(* Properties of the tag mapper (checked under SpecMapper).                *)
(***************************************************************************)
Tags == {size_to_tag[s] : s \in DOMAIN size_to_tag}
SizesTagged(tag) == {s \in DOMAIN size_to_tag : size_to_tag[s] = tag}
AnalysedSizes == {font_styles[k].size : k \in DOMAIN font_styles}
FirstRankedSize == float_of(font_frequencies[1][1])
LargerSizes == {s \in AnalysedSizes : s > FirstRankedSize}
MapBuilt == pc = "mapped" /\ font_frequencies # <<>>

\* C1: for a non-empty analysis the map built by build_from_fonts gives the
\* paragraph tag to exactly one size, and that size is the size of the first
\* identifier of the frequency ranking.
C1_OneParagraphSize ==
    MapBuilt =>
        /\ Cardinality(SizesTagged(MARKDOWN_PARAGRAPH_TAG)) = 1
        /\ SizesTagged(MARKDOWN_PARAGRAPH_TAG) = {FirstRankedSize}
        /\ font_styles[font_frequencies[1][1]].size = FirstRankedSize

\* A map of three sizes whose paragraph size is neither the largest nor the
\* smallest one.
C1_Witness ==
    /\ MapBuilt
    /\ \E s, t \in DOMAIN size_to_tag : s < FirstRankedSize /\ FirstRankedSize < t
    /\ size_to_tag[FirstRankedSize] = MARKDOWN_PARAGRAPH_TAG

\* C2: with N sizes strictly greater than the paragraph size, the header tags
\* of the map are exactly <h1>..<hN>, each on exactly one size, the sizes that
\* carry them are exactly those N sizes, and a larger size has a lower level.
C2_HeaderLevels ==
    MapBuilt =>
        LET N == Cardinality(LargerSizes)
            HeaderSizes == {s \in DOMAIN size_to_tag :
                               startswith(size_to_tag[s], <<"<", "h">>)}
            Level(s) == CHOOSE n \in 1..N : size_to_tag[s] = HeaderTag(n)
        IN  /\ HeaderSizes = LargerSizes
            /\ \A n \in 1..N : Cardinality(SizesTagged(HeaderTag(n))) = 1
            /\ \A s \in HeaderSizes : \E n \in 1..N : size_to_tag[s] = HeaderTag(n)
            /\ \A s1, s2 \in LargerSizes : s1 > s2 => Level(s1) < Level(s2)

\* A map with at least two header levels and a small size.
C2_Witness ==
    /\ MapBuilt
    /\ Cardinality(LargerSizes) >= 2
    /\ HeaderTag(2) \in Tags
    /\ MARKDOWN_SMALL_TAG \in Tags

(***************************************************************************)
(* Properties of the extractor (checked under SpecExtract).                *)
(***************************************************************************)
NRuns == Len(runs_seen)
LastRun == runs_seen[NRuns]
\* A step that visited one more run.
RunStep == Len(runs_seen') = Len(runs_seen) + 1
NewRun == runs_seen'[Len(runs_seen')]
Blank(s) == strip(s) = <<>>
\* The run's text was written to the accumulator.
Contributes(r) == r.span.text # <<>> /\ ~(r.merged /\ r.span.text = <<" ">>)
RunsOfGen(g) == {i \in 1..NRuns : runs_seen[i].gen = g}

RECURSIVE NonWs(_)
\* The characters of s that are not whitespace.
NonWs(s) ==
    IF s = <<>> THEN <<>>
    ELSE (IF s[1] \in Whitespace THEN <<>> ELSE <<s[1]>>) \o NonWs(Tail(s))

RECURSIVE NonWsOfRuns(_, _)
\* The non-whitespace characters of the runs i..NRuns of accumulator g, in
\* traversal order.
NonWsOfRuns(g, i) ==
    IF i > NRuns THEN <<>>
    ELSE (IF runs_seen[i].gen = g /\ Contributes(runs_seen[i])
          THEN NonWs(runs_seen[i].span.text) ELSE <<>>) \o NonWsOfRuns(g, i + 1)

\* C3 as claimed: two consecutive runs of one page with the same tag are never
\* separated by a flush, also when they lie in different blocks.
C3_SamePageSameTagTogether ==
    \A i \in 1..(NRuns - 1) :
        (runs_seen[i].page = runs_seen[i + 1].page
           /\ runs_seen[i].tag = runs_seen[i + 1].tag)
        => runs_seen[i].gen = runs_seen[i + 1].gen

\* C3, amended: a TextSpan is emitted only by a run whose tag differs from the
\* accumulator's or at the end of a block, and two consecutive runs of one
\* block with the same tag are never separated by a flush.
C3_FlushOnlyAtTagChangeOrBlockEnd ==
    /\ [][text_spans' # text_spans =>
             /\ text_spans' = Append(text_spans,
                                    TextSpan(current_block_tag, current_block_content))
             /\ \/ RunStep /\ NewRun.tag # current_block_tag
                \/ ~RunStep /\ e_loc = "block" /\ e_loc' = "page"]_vars
    /\ [](\A i \in 1..(NRuns - 1) :
              (runs_seen[i].block = runs_seen[i + 1].block
                 /\ runs_seen[i].tag = runs_seen[i + 1].tag)
              => runs_seen[i].gen = runs_seen[i + 1].gen)

\* Two runs "a", "a" of one block and one tag, emitted as one TextSpan, after a
\* TextSpan of the same tag emitted at the end of the previous block of the
\* same page.
C3_Witness ==
    /\ NRuns = 3
    /\ runs_seen[1].page = runs_seen[2].page
    /\ runs_seen[1].block # runs_seen[2].block
    /\ runs_seen[2].block = runs_seen[3].block
    /\ \A i \in 1..3 : runs_seen[i].tag = MARKDOWN_PARAGRAPH_TAG
                         /\ runs_seen[i].span.text = <<"a">>
    /\ Len(text_spans) = 2
    /\ text_spans[2].content = <<" ", "a", " ", "a">>

\* C4 as claimed: the runs whose text is in one emitted TextSpan are all of the
\* same page.
C4_NoSpanAcrossPages ==
    \A k \in 1..Len(text_spans) :
        \A i, j \in RunsOfGen(span_gen[k]) :
            (Contributes(runs_seen[i]) /\ Contributes(runs_seen[j]))
            => runs_seen[i].page = runs_seen[j].page

\* C4, amended: the runs whose non-whitespace text is in one emitted TextSpan
\* are all of the same page, and between pages the accumulator holds no
\* non-whitespace text.
C4_NoVisibleTextAcrossPages ==
    /\ \A k \in 1..Len(text_spans) :
           \A i, j \in RunsOfGen(span_gen[k]) :
               (/\ Contributes(runs_seen[i]) /\ ~Blank(runs_seen[i].span.text)
                /\ Contributes(runs_seen[j]) /\ ~Blank(runs_seen[j].span.text))
               => runs_seen[i].page = runs_seen[j].page
    /\ e_loc # "block" => Blank(current_block_content)

\* Page 1 ends with "a", page 2 starts with a run "a" of the same tag: two
\* TextSpans.
C4_Witness ==
    /\ NRuns = 2
    /\ runs_seen[1].page = 1 /\ runs_seen[2].page = 2
    /\ runs_seen[1].tag = runs_seen[2].tag
    /\ runs_seen[1].span.text = <<"a">> /\ runs_seen[2].span.text = <<"a">>
    /\ Len(text_spans) = 2
    /\ text_spans[1].tag = text_spans[2].tag

\* C5: the emitted TextSpans are in traversal order: the k-th TextSpan carries
\* the tag and the visible characters of the runs of one accumulator, those
\* runs are consecutive in the traversal, and the runs of an earlier TextSpan
\* all precede the runs of a later one.
C5_ReadingOrder ==
    /\ Len(span_gen) = Len(text_spans)
    /\ \A k \in 1..Len(text_spans) :
           LET R == RunsOfGen(span_gen[k])
           IN  /\ R # {}
               /\ \A i, j \in R : \A m \in i..j : m \in R
               /\ \A i \in R : runs_seen[i].tag = text_spans[k].tag
               /\ NonWs(text_spans[k].content) = NonWsOfRuns(span_gen[k], 1)
    /\ \A k, l \in 1..Len(text_spans) :
           k < l => \A i \in RunsOfGen(span_gen[k]), j \in RunsOfGen(span_gen[l]) : i < j

\* Three runs "a" with three distinct tags, emitted as three TextSpans.
C5_Witness ==
    /\ NRuns = 3
    /\ Len(text_spans) = 3
    /\ Cardinality({text_spans[k].tag : k \in 1..3}) = 3
    /\ \A k \in 1..3 : runs_seen[k].tag = text_spans[k].tag
                         /\ text_spans[k].content = <<"a">>

\* C6: a run of non-empty text other than " " that is merged into the
\* accumulator extends it by one space and the run's text, whatever the fonts.
C6_MergeInsertsOneSpace ==
    [][(RunStep /\ NewRun.merged /\ NewRun.span.text \notin {<<>>, <<" ">>})
          => current_block_content'
               = current_block_content \o <<" ">> \o NewRun.span.text]_vars

\* "a" in one font merged with "a" in another font of the same tag: "a a".
C6_Witness ==
    /\ NRuns = 2
    /\ LastRun.merged
    /\ runs_seen[1].span.font # runs_seen[2].span.font
    /\ current_block_content = <<"a", " ", "a">>

\* C7: a run " " that is merged into the accumulator leaves the content as it
\* is and emits nothing.
C7_SingleSpaceAbsorbed ==
    [][(RunStep /\ NewRun.merged /\ NewRun.span.text = <<" ">>)
          => /\ current_block_content' = current_block_content
             /\ text_spans' = text_spans]_vars

\* "a", then " " in another font of the same tag: the content is still "a".
C7_Witness ==
    /\ NRuns = 2
    /\ LastRun.merged
    /\ LastRun.span.text = <<" ">>
    /\ runs_seen[1].span.font # runs_seen[2].span.font
    /\ current_block_content = <<"a">>

\* The font name has the keyword at some position, letter case ignored.
HasKeyword(font, keyword) ==
    \E i \in 1..Len(font) :
        /\ i + Len(keyword) - 1 <= Len(font)
        /\ \A m \in 1..Len(keyword) : lower_char(font[i + m - 1]) = keyword[m]

CodeKeywords == {<<"m", "o", "n", "o">>, <<"c", "o", "u", "r", "i", "e", "r">>,
                 <<"c", "o", "d", "e">>, <<"c", "o", "n", "s", "o", "l", "a", "s">>}

\* C8: the run visited last, and the accumulator holding it, have the tag code
\* when the run's font name has a code-font keyword, else the tag the map
\* gives the run's size, else paragraph.
C8_TagResolution ==
    NRuns >= 1 =>
        LET r == LastRun
        IN  /\ r.tag = IF \E kw \in CodeKeywords : HasKeyword(r.span.font, kw)
                       THEN MARKDOWN_CODE_TAG
                       ELSE IF r.span.size \in DOMAIN size_to_tag
                            THEN size_to_tag[r.span.size]
                            ELSE MARKDOWN_PARAGRAPH_TAG
            /\ current_block_tag = r.tag

\* A Consolas-Bold run of a header size tagged code, and a run of a size the
\* map does not have tagged paragraph, and the accumulator carrying the tag of
\* the last run.
C8_Witness ==
    /\ NRuns = 2
    /\ runs_seen[1].span.font = ConsolasBold
    /\ runs_seen[1].span.size \in DOMAIN size_to_tag
    /\ size_to_tag[runs_seen[1].span.size] = HeaderTag(1)
    /\ runs_seen[1].tag = MARKDOWN_CODE_TAG
    /\ runs_seen[2].span.size \notin DOMAIN size_to_tag
    /\ runs_seen[2].tag = MARKDOWN_PARAGRAPH_TAG
    /\ current_block_tag = MARKDOWN_PARAGRAPH_TAG

(***************************************************************************)
(* Properties of the formatter (checked under SpecFormat).                 *)
(***************************************************************************)
RECURSIVE split_lines(_, _)
\* s.split("\n"), cur being the line under construction.
split_lines(s, cur) ==
    IF s = <<>> THEN <<cur>>
    ELSE IF s[1] = "\n" THEN <<cur>> \o split_lines(Tail(s), <<>>)
         ELSE split_lines(Tail(s), Append(cur, s[1]))

OutputLines == split_lines(markdown_output, <<>>)
FenceLines == {i \in 1..Len(OutputLines) : OutputLines[i] = Fence}
\* An opening fence is written after a line break, so it follows an empty
\* line; a closing fence follows a line of code.
OpensFence(i) == i = 1 \/ OutputLines[i - 1] = <<>>
FenceRank(i) == Cardinality({j \in FenceLines : j <= i})

\* C9: the fence lines of the output are an opening one, a closing one, an
\* opening one, ...; during the loop the last one is an opening one exactly
\* when in_code_block is true, and in the returned string the last one is a
\* closing one.
C9_FencesBalanced ==
    /\ \A i \in FenceLines : OpensFence(i) <=> (FenceRank(i) % 2 = 1)
    /\ pc = "format" => (in_code_block <=> Cardinality(FenceLines) % 2 = 1)
    /\ pc = "formatted" => Cardinality(FenceLines) % 2 = 0

\* Code, paragraph, code: the second fence is open when the spans end, and
\* the returned string has four fence lines.
C9_Witness ==
    /\ pc = "formatted"
    /\ in_code_block
    /\ Len(text_spans) = 3
    /\ Cardinality(FenceLines) = 4

IsNonBlankSpan(t) == strip(t.content) # <<>>
NonBlankSpans(spans) == SelectSeq(spans, IsNonBlankSpan)

\* C10: an iteration on a TextSpan of blank content changes neither the output
\* nor in_code_block, and the returned string is the one format_markdown
\* returns for the list without its blank TextSpans.
C10_BlankSpansIgnored ==
    /\ [][(pc = "format" /\ f_i' = f_i + 1 /\ ~IsNonBlankSpan(text_spans[f_i]))
             => /\ markdown_output' = markdown_output
                /\ in_code_block' = in_code_block]_vars
    /\ [](pc = "formatted"
             => markdown_output = format_markdown(NonBlankSpans(text_spans)))

\* Code, a whitespace-only paragraph, code: one fence with two lines of code.
C10_Witness ==
    /\ pc = "formatted"
    /\ Len(text_spans) = 3
    /\ text_spans[1] = TextSpan(MARKDOWN_CODE_TAG, <<" ", "a", " ", "\n", "b">>)
    /\ text_spans[2] = TextSpan(MARKDOWN_PARAGRAPH_TAG, <<" ">>)
    /\ text_spans[3] = TextSpan(MARKDOWN_CODE_TAG, <<" ", "a", " ", "\n", "b">>)
    /\ markdown_output = <<"\n">> \o Fence
                            \o <<"\n", "a", " ", "b", "\n", "a", " ", "b", "\n">>
                            \o Fence \o <<"\n">>

\* The header levels of one digit.
HeaderLevels == 1..9
\* A step of the loop of format_markdown, on the TextSpan text_spans[f_i].
FormatStep == pc = "format" /\ f_i' = f_i + 1
\* The output as it is when the span's text is written: an open fence is
\* closed before text that is not code.
AfterFenceClose ==
    IF in_code_block THEN markdown_output \o Fence \o <<"\n", "\n">>
    ELSE markdown_output

RECURSIVE LeadingHashes(_)
\* The number of '#' characters a line starts with.
LeadingHashes(line) ==
    IF line # <<>> /\ line[1] = "#" THEN 1 + LeadingHashes(Tail(line)) ELSE 0

\* C11: an iteration on a non-blank TextSpan tagged <hN>, N >= 1, writes an
\* empty line, then min(N, 4) '#' characters, a space and the content; and no
\* line of the output ever starts with five or more '#' characters.
C11_HeaderLevelCapped ==
    /\ [][\A N \in HeaderLevels :
             (FormatStep /\ IsNonBlankSpan(text_spans[f_i])
                /\ text_spans[f_i].tag = HeaderTag(N))
             => \E k \in 1..4 :
                   /\ k = (IF N < 4 THEN N ELSE 4)
                   /\ markdown_output' =
                          AfterFenceClose \o <<"\n">> \o [i \in 1..k |-> "#"]
                             \o <<" ">>
                             \o collapse_whitespace(strip(text_spans[f_i].content))
                             \o <<"\n", "\n">>]_vars
    /\ [](\A i \in 1..Len(OutputLines) : LeadingHashes(OutputLines[i]) <= 4)

\* A TextSpan tagged <h5> written as a heading of four '#', after one tagged
\* <h1> written with one '#'.
C11_Witness ==
    /\ pc = "formatted"
    /\ Len(text_spans) = 2
    /\ text_spans[1] = TextSpan(HeaderTag(1), <<" ", "a", " ", "\n", "b">>)
    /\ text_spans[2] = TextSpan(HeaderTag(5), <<" ", "a", " ", "\n", "b">>)
    /\ markdown_output = <<"\n", "#", " ", "a", " ", "b", "\n", "\n">>
                            \o <<"\n", "#", "#", "#", "#", " ", "a", " ", "b", "\n", "\n">>

(***************************************************************************)
(* Properties of the conversion (checked under SpecConvert).               *)
(***************************************************************************)
\* The conversion has ended.
Ended == pc \in {"done", "failed"}
\* The steps before the write in which the conversion can end.
StepsBeforeWrite == {"exists", "open", "analyze", "is_empty", "extract"}

\* C12: the file at output_path changes only in the step taken after the
\* formatter has returned; while the conversion runs the file is untouched,
\* and it is untouched when the conversion has ended with the input missing,
\* with an empty analysis or with an exception raised by the open or by a
\* pass.
C12_NoWriteBeforePassesComplete ==
    /\ [][output_file' # output_file
             => /\ pc = "formatted"
                /\ f_i > Len(text_spans)
                /\ Len(font_frequencies) # 0]_vars
    /\ [](~Ended => output_file = NoFile)
    /\ []((pc = "failed" /\ raised.in \in StepsBeforeWrite) => output_file = NoFile)

\* An exception raised by the extractor after it has emitted a TextSpan: no
\* output file.
C12_Witness ==
    /\ pc = "failed"
    /\ raised = [type |-> "Exception", in |-> "extract"]
    /\ text_spans # <<>>
    /\ output_file = NoFile

\* C13: when the conversion has ended, the document handle is not open.
C13_HandleReleased ==
    Ended => ~document_open

\* The steps in which page.get_text raises, in the analysis and in the
\* extraction.
AnalysisPageFails == pc = "analyze" /\ a_pages' = a_pages + 1 /\ a_page' = "failed"
ExtractPageFails == pc = "extract" /\ e_loc # "failed" /\ e_loc' = "failed"

\* C14: a page that fails to decode ends neither pass and changes nothing of
\* what the pass has computed, so that the pass goes on as if the page were
\* not in the document; the conversion ends with "No text found" only when
\* the analysis has counted no run, and it goes on past the analysis only
\* when the analysis has counted one.
C14_FailedPagesSkipped ==
    /\ [][AnalysisPageFails
             => /\ pc' = "analyze"
                /\ UNCHANGED <<a_runs, font_styles, font_count_map, raised>>]_vars
    /\ [][ExtractPageFails
             => /\ pc' = "extract"
                /\ UNCHANGED <<text_spans, first_span, previous_span,
                               current_block_tag, current_block_content,
                               page_height, runs_seen, raised>>]_vars
    /\ [](raised.type = "ValueError" => (pc = "failed" /\ a_runs = 0))
    /\ [](pc \in {"mapped", "extract", "format", "formatted", "done"} => a_runs > 0)

\* A conversion that has written its output although the last page of the
\* analysis and the last page of the extraction failed to decode.
C14_Witness ==
    /\ pc = "done"
    /\ a_page = "failed"
    /\ e_loc = "failed"
    /\ a_runs > 0
    /\ text_spans # <<>>
    /\ output_file = [exists |-> TRUE, content |-> <<"a", "\n", "\n">>]

\* The name ends with ".pdf", in any letter case.
IsPDFName(name) ==
    /\ Len(name) >= 4
    /\ LET n == Len(name)
       IN  /\ name[n - 3] = "."
           /\ name[n - 2] \in {"p", "P"}
           /\ name[n - 1] \in {"d", "D"}
           /\ name[n] \in {"f", "F"}

\* The block lies in the header zone or in the footer zone of the page.
InMargin(block) ==
    \/ block.bbox[2] < PDF_HEADER_MARGIN
    \/ block.bbox[4] > page_height - PDF_FOOTER_MARGIN

\* C15: wherever the extractor is about to read a block of a page, a text
\* block in a margin of a PDF page is passed over with no variable changed
\* (so no run of it is visited), and every other text block is entered: in a
\* PDF those outside the margins, in another format all of them, the margins
\* of such a document being zero.
C15_MarginExclusion ==
    /\ ~IsPDFName(document_name)
          => get_margins_for_document(document_name) = PageMargins(0, 0)
    /\ (pc = "extract" /\ e_loc = "page" /\ NRuns < MaxRuns)
          => \A block \in Blocks :
                block.type = TEXT_BLOCK_TYPE
                => IF IsPDFName(document_name) /\ InMargin(block)
                   THEN /\ ENABLED (ExtractBlock(block) /\ UNCHANGED vars)
                        /\ ~ENABLED (ExtractBlock(block) /\ e_loc' = "block")
                   ELSE /\ ENABLED (ExtractBlock(block) /\ e_loc' = "block")
                        /\ ~ENABLED (ExtractBlock(block) /\ e_loc' = "page")

\* A page of a PDF, after a TextSpan was emitted: the block in the header
\* zone and the one in the footer zone are passed over, the one in the body
\* is entered.
C15_Witness ==
    /\ pc = "extract"
    /\ e_loc = "page"
    /\ document_name = BookPDF
    /\ text_spans # <<>>
    /\ NRuns < MaxRuns
    /\ ENABLED (ExtractBlock([type |-> 0, bbox |-> <<0, 10, 100, 40>>])
                   /\ UNCHANGED vars)
    /\ ENABLED (ExtractBlock([type |-> 0, bbox |-> <<0, 160, 100, 195>>])
                   /\ UNCHANGED vars)
    /\ ENABLED (ExtractBlock([type |-> 0, bbox |-> <<0, 60, 100, 140>>])
                   /\ e_loc' = "block")

(***************************************************************************)
(* More properties of the extractor (checked under SpecExtract).           *)
(***************************************************************************)
\* The first and the last run of the accumulator emitted as text_spans[k].
FirstRunOf(k) ==
    CHOOSE i \in RunsOfGen(span_gen[k]) : \A j \in RunsOfGen(span_gen[k]) : i <= j
LastRunOf(k) ==
    CHOOSE i \in RunsOfGen(span_gen[k]) : \A j \in RunsOfGen(span_gen[k]) : j <= i

\* C16 as claimed: two consecutive TextSpans that hold text of the same page
\* have different tags.
C16_MaximalSameTagRuns ==
    \A k \in 1..(Len(text_spans) - 1) :
        (\E i \in RunsOfGen(span_gen[k]), j \in RunsOfGen(span_gen[k + 1]) :
             runs_seen[i].page = runs_seen[j].page)
        => text_spans[k].tag # text_spans[k + 1].tag

\* C16, amended: two consecutive TextSpans have different tags unless a block
\* ends between them, or runs of another tag holding only whitespace lie
\* between them.
C16_MaximalWithinBlock ==
    \A k \in 1..(Len(text_spans) - 1) :
        text_spans[k].tag = text_spans[k + 1].tag
        => \/ runs_seen[LastRunOf(k)].block # runs_seen[FirstRunOf(k + 1)].block
           \/ \E i \in (LastRunOf(k) + 1)..(FirstRunOf(k + 1) - 1) :
                 /\ runs_seen[i].tag # text_spans[k].tag
                 /\ Blank(runs_seen[i].span.text)

\* One block with the runs "a" (header), " " (paragraph), "a" (header): two
\* consecutive header TextSpans; the whitespace between them was dropped.
C16_Witness ==
    /\ NRuns = 3
    /\ runs_seen[1].block = runs_seen[3].block
    /\ runs_seen[2].span.text = <<" ">>
    /\ runs_seen[2].tag = MARKDOWN_PARAGRAPH_TAG
    /\ text_spans = <<TextSpan(HeaderTag(1), <<"a">>), TextSpan(HeaderTag(1), <<"a">>)>>

(***************************************************************************)
(* More properties of the formatter (checked under SpecFormat).            *)
(***************************************************************************)
\* The TextSpans of the input that are not blank, and the code spans among
\* them.
Visible == NonBlankSpans(text_spans)
IsCodeAt(k) == Visible[k].tag = MARKDOWN_CODE_TAG
CodeSpans == {k \in 1..Len(Visible) : IsCodeAt(k)}
\* The code spans that start, and those that end, a maximal run of
\* consecutive code spans.
CodeRunStarts == {k \in CodeSpans : k = 1 \/ ~IsCodeAt(k - 1)}
CodeRunEnds == {k \in CodeSpans : k = Len(Visible) \/ ~IsCodeAt(k + 1)}
\* The lines of the output between an opening fence and its closing fence.
LinesInFence ==
    {i \in 1..Len(OutputLines) :
        /\ i \notin FenceLines
        /\ Cardinality({j \in FenceLines : j < i}) % 2 = 1}

\* C17: in the returned string there are as many opening fences as maximal
\* runs of consecutive code spans among the non-blank TextSpans, as many
\* closing fences as such runs (one where a non-code span follows, one at the
\* end of the input), and as many lines inside fences as code spans, each
\* the collapsed content of a code span.
C17_CodeSpansShareFence ==
    pc = "formatted" =>
        /\ Cardinality({i \in FenceLines : OpensFence(i)}) = Cardinality(CodeRunStarts)
        /\ Cardinality({i \in FenceLines : ~OpensFence(i)}) = Cardinality(CodeRunEnds)
        /\ Cardinality(LinesInFence) = Cardinality(CodeSpans)
        /\ \A i \in LinesInFence :
              \E k \in CodeSpans :
                 OutputLines[i] = collapse_whitespace(strip(Visible[k].content))

\* Code, code, paragraph: one fence holding two lines, closed before the
\* paragraph.
C17_Witness ==
    /\ pc = "formatted"
    /\ Len(text_spans) = 3
    /\ text_spans[1].tag = MARKDOWN_CODE_TAG
    /\ text_spans[2].tag = MARKDOWN_CODE_TAG
    /\ text_spans[3].tag = MARKDOWN_PARAGRAPH_TAG
    /\ markdown_output = <<"\n">> \o Fence
                            \o <<"\n", "a", " ", "b", "\n", "a", " ", "b", "\n">>
                            \o Fence \o <<"\n", "\n", "a", " ", "b", "\n", "\n">>

(***************************************************************************)
(* Properties of the analysis (checked under SpecMapper).                  *)
(***************************************************************************)
\* The runs visited that have the identifier, and the first of them.
RunsWith(identifier) ==
    {j \in 1..Len(a_seen) : str_float(a_seen[j]) = identifier}
FirstEncounter(identifier) ==
    CHOOSE j \in RunsWith(identifier) : \A m \in RunsWith(identifier) : j <= m
\* The analysis has returned its ranking.
Ranked == pc \in {"map", "mapped"}

\* C18: the ranking holds the identifiers of the visited runs, each once, with
\* the number of runs that have it; counts do not increase along the ranking,
\* identifiers of equal count are in the order of their first runs; and the
\* size tagged paragraph is the one of the most frequent identifier met
\* first.
C18_RankingStable ==
    Ranked =>
        LET n == Len(font_frequencies)
            Id(i) == font_frequencies[i][1]
            Count(i) == font_frequencies[i][2]
        IN  /\ {Id(i) : i \in 1..n} = {str_float(a_seen[j]) : j \in 1..Len(a_seen)}
            /\ \A i, j \in 1..n : i # j => Id(i) # Id(j)
            /\ \A i \in 1..n : Count(i) = Cardinality(RunsWith(Id(i)))
            /\ \A i, j \in 1..n :
                  i < j => \/ Count(i) > Count(j)
                           \/ /\ Count(i) = Count(j)
                              /\ FirstEncounter(Id(i)) < FirstEncounter(Id(j))
            /\ (pc = "mapped" /\ n > 0)
                  => \E j \in 1..Len(a_seen) :
                        /\ size_to_tag[a_seen[j]] = MARKDOWN_PARAGRAPH_TAG
                        /\ \A m \in 1..Len(a_seen) :
                              LET cj == Cardinality(RunsWith(str_float(a_seen[j])))
                                  cm == Cardinality(RunsWith(str_float(a_seen[m])))
                              IN  \/ cj > cm
                                  \/ /\ cj = cm
                                     /\ FirstEncounter(str_float(a_seen[j]))
                                           <= FirstEncounter(str_float(a_seen[m]))

\* Runs of the sizes 18, 12, 12, 18: a tie, and 18, met first, is the
\* paragraph size.
C18_Witness ==
    /\ pc = "mapped"
    /\ a_seen = <<180, 120, 120, 180>>
    /\ font_frequencies = << <<str_float(180), 2>>, <<str_float(120), 2>> >>
    /\ size_to_tag[180] = MARKDOWN_PARAGRAPH_TAG
    /\ size_to_tag[120] = MARKDOWN_SMALL_TAG

(***************************************************************************)
(* More properties of the conversion (checked under SpecConvert).          *)
(***************************************************************************)
\* C19: a text block that cannot be read during the analysis does not end the
\* analysis: no conversion ends with an exception raised by the analysis.
C19_BlockFailureSkipped ==
    ~(pc = "failed" /\ raised.in = "analyze")

(***************************************************************************)
(* No text lost (checked under SpecExtract).                               *)
(***************************************************************************)
\* The TextSpans that hold the accumulator the i-th visited run went into.
SpansOfRun(i) == {k \in 1..Len(text_spans) : span_gen[k] = runs_seen[i].gen}

\* C20: the accumulator holds the visible text of the runs that went into it
\* and of no other run, all of them of the tag current_block_tag; and when the
\* extractor has returned, the accumulator is blank and every visited run
\* with visible text has its text in exactly one TextSpan, of the run's tag.
C20_NoTextLost ==
    /\ \A i \in RunsOfGen(gen) : runs_seen[i].tag = current_block_tag
    /\ NonWs(current_block_content) = NonWsOfRuns(gen, 1)
    /\ pc = "format"
          => /\ Blank(current_block_content)
             /\ \A i \in 1..NRuns :
                   ~Blank(runs_seen[i].span.text)
                   => /\ Cardinality(SpansOfRun(i)) = 1
                      /\ \A k \in SpansOfRun(i) :
                            /\ text_spans[k].tag = runs_seen[i].tag
                            /\ str_in(runs_seen[i].span.text, text_spans[k].content)

\* The extractor has returned after the runs "a", "a" (paragraph, two fonts)
\* and "a" (code): the TextSpans "a a" and "a".
C20_Witness ==
    /\ pc = "format"
    /\ NRuns = 3
    /\ runs_seen[1].span.font # runs_seen[2].span.font
    /\ text_spans = <<TextSpan(MARKDOWN_PARAGRAPH_TAG, <<"a", " ", "a">>),
                      TextSpan(MARKDOWN_CODE_TAG, <<"a">>)>>

====
